---------------------------- MODULE Spec2Model ----------------------------
(***************************************************************************)
(* A model of the geo package: Point (a lat/lng pair of float64), Polygon  *)
(* (a slice of Points), Polygon.Add / Points / IsClosed, and the two       *)
(* versions of the ray-casting predicate Polygon.Contains.                 *)
(*                                                                         *)
(* float64.  A coordinate is an integer counting units in the last place   *)
(* inside a window of equally spaced doubles (the subnormals k * 2^-1074   *)
(* are such a window, and it straddles 0): == < > are those of float64,    *)
(* math.Nextafter(x, +Inf) is x + 1, and a difference of two coordinates   *)
(* is exact.  The one value above every finite one is PosInf, for which    *)
(* Nextafter(PosInf, +Inf) = PosInf.  A quotient is kept as an exact       *)
(* fraction: two different fractions of the small numerators and           *)
(* denominators that occur here differ by far more than the rounding of a  *)
(* float64 division, so >= on the fractions is >= on the rounded           *)
(* quotients.  Division by zero and Inf - Inf follow IEEE-754 (+-Inf, NaN).*)
(***************************************************************************)
EXTENDS Integers, Sequences, FiniteSets, TLC

(* ------------------------------ bounds -------------------------------- *)
\* The generated inputs have their latitudes in 0..MaxLat and their
\* longitudes in 0..MaxLng.
MaxLat == 2
MaxLng == 1
\* Longest point sequence of a generated polygon.
MaxPts == 3

(* ------------------------------ float64 ------------------------------- *)
\* math.Inf(1): above every finite coordinate.
PosInf == 1000

Nextafter(x) == IF x = PosInf THEN PosInf ELSE x + 1

\* Results of float64 arithmetic: a finite value, an infinity with its sign,
\* or NaN.
Fin(v) == [k |-> "fin", n |-> v, d |-> 1]
Inf(sgn) == [k |-> "inf", n |-> sgn, d |-> 0]
NaN == [k |-> "nan", n |-> 0, d |-> 0]

ToF(x) == IF x = PosInf THEN Inf(1) ELSE IF x = -PosInf THEN Inf(-1) ELSE Fin(x)

\* a - b on float64 (operands and result without a fractional part).
FSub(a, b) ==
  IF a.k = "nan" \/ b.k = "nan" THEN NaN
  ELSE IF a.k = "inf" /\ b.k = "inf" THEN (IF a.n = b.n THEN NaN ELSE a)
  ELSE IF a.k = "inf" THEN a
  ELSE IF b.k = "inf" THEN Inf(-b.n)
  ELSE Fin(a.n - b.n)

\* a / b on float64; a zero divisor is +0 (it is always x - x).
FDiv(a, b) ==
  IF a.k = "nan" \/ b.k = "nan" THEN NaN
  ELSE IF a.k = "inf" /\ b.k = "inf" THEN NaN
  ELSE IF a.k = "inf" THEN Inf(IF b.n < 0 THEN -a.n ELSE a.n)
  ELSE IF b.k = "inf" THEN Fin(0)
  ELSE IF b.n = 0 THEN (IF a.n = 0 THEN NaN ELSE IF a.n > 0 THEN Inf(1) ELSE Inf(-1))
  ELSE IF b.n < 0 THEN [k |-> "fin", n |-> -a.n, d |-> -b.n]
  ELSE [k |-> "fin", n |-> a.n, d |-> b.n]

\* x >= y on float64: false when either is NaN.
FGeq(x, y) ==
  IF x.k = "nan" \/ y.k = "nan" THEN FALSE
  ELSE IF x.k = "inf" THEN (x.n = 1 \/ (y.k = "inf" /\ y.n = -1))
  ELSE IF y.k = "inf" THEN y.n = -1
  ELSE x.n * y.d >= y.n * x.d

(* ------------------------------- Point -------------------------------- *)
NewPoint(lat, lng) == [lat |-> lat, lng |-> lng]

(* ---------------------- Contains, src/polygon.go ---------------------- *)
\* IsClosed on a point sequence.
IsClosedPtsTwo(pts) == ~(Len(pts) < 2)
IsClosedPts(pts) == ~(Len(pts) < 3)

\* The loop of lines 54-58: some vertex has the query's lat and lng.
IsVertexSkipFirst(pts, point) ==
  \E i \in 2..Len(pts) : pts[i].lat = point.lat /\ pts[i].lng = point.lng
IsVertex(pts, point) ==
  \E i \in 1..Len(pts) : pts[i].lat = point.lat /\ pts[i].lng = point.lng

\* The test without its latitude loop.
PerturbLatNone(lat, startLat, endLat) == lat

\* The loop of lines 89-92: step lat upwards while it equals either end's.
RECURSIVE PerturbLat(_, _, _)
PerturbLat(lat, startLat, endLat) ==
  IF lat = startLat \/ lat = endLat
  THEN PerturbLat(Nextafter(lat), startLat, endLat)
  ELSE lat

\* raySlope >= diagSlope with the operands of lines 122-124.
SlopeTest(point, start, end) ==
  LET raySlope == FDiv(FSub(ToF(point.lat), ToF(start.lat)),
                       FSub(ToF(point.lng), ToF(start.lng)))
      diagSlope == FDiv(FSub(ToF(end.lat), ToF(start.lat)),
                        FSub(ToF(end.lng), ToF(start.lng)))
  IN FGeq(raySlope, diagSlope)

\* Lines 99-114: "no" / "yes" when the longitudes decide, "band" otherwise.
LngBand(point, start, end) ==
  IF start.lng > end.lng
  THEN (IF point.lng > start.lng THEN "no"
        ELSE IF point.lng < end.lng THEN "yes" ELSE "band")
  ELSE (IF point.lng > end.lng THEN "no"
        ELSE IF point.lng < start.lng THEN "yes" ELSE "band")

\* Lines 94-124: the test once the latitude loop has ended.
EdgeDecision(point, start, end) ==
  LET band == LngBand(point, start, end)
  IN IF point.lat < start.lat \/ point.lat > end.lat THEN FALSE
     ELSE IF band = "no" THEN FALSE
     ELSE IF band = "yes" THEN TRUE
     ELSE IF point.lng = start.lng THEN FALSE
     ELSE SlopeTest(point, start, end)

\* Lines 82-87: the ends ordered by latitude, <<start, end>>.
Ordered(start0, end0) ==
  IF start0.lat > end0.lat THEN <<end0, start0>> ELSE <<start0, end0>>

intersectsNoSwap(point0, start, end) ==
  EdgeDecision(NewPoint(PerturbLat(point0.lat, start.lat, end.lat), point0.lng),
               start, end)

intersectsWithRaycast(point0, start0, end0) ==
  LET start == Ordered(start0, end0)[1]
      end == Ordered(start0, end0)[2]
      point == NewPoint(PerturbLat(point0.lat, start.lat, end.lat), point0.lng)
  IN EdgeDecision(point, start, end)

\* Lines 60-71: the wraparound edge, then every edge (pts[i-1], pts[i]).
RECURSIVE EdgeScan(_, _, _, _)
EdgeScan(pts, point, i, contains) ==
  IF i > Len(pts) THEN contains
  ELSE EdgeScan(pts, point, i + 1,
                IF intersectsWithRaycast(point, pts[i - 1], pts[i])
                THEN ~contains ELSE contains)

\* The scan without the wraparound edge.
ContainsNoWrap(pts, point) ==
  IF ~IsClosedPts(pts) THEN FALSE
  ELSE IF IsVertex(pts, point) THEN TRUE
  ELSE EdgeScan(pts, point, 2, FALSE)

Contains(pts, point) ==
  IF ~IsClosedPts(pts) THEN FALSE
  ELSE IF IsVertex(pts, point) THEN TRUE
  ELSE EdgeScan(pts, point, 2,
                intersectsWithRaycast(point, pts[Len(pts)], pts[1]))

(* ------------------- Contains, src/unnamed/part_001 ------------------- *)
\* The inner loops of lines 54-57 and 60-63: step x upwards while it equals v.
RECURSIVE PerturbOff(_, _)
PerturbOff(x, v) == IF x = v THEN PerturbOff(Nextafter(x), v) ELSE x

\* Lines 52-64: one pass over the vertices, in their order.
RECURSIVE PerturbPass(_, _, _)
PerturbPass(pts, point, i) ==
  IF i > Len(pts) THEN point
  ELSE PerturbPass(pts,
                   NewPoint(PerturbOff(point.lat, pts[i].lat),
                            PerturbOff(point.lng, pts[i].lng)),
                   i + 1)

intersectsWithRaycastPF(point, start0, end0) ==
  LET start == Ordered(start0, end0)[1]
      end == Ordered(start0, end0)[2]
      band == LngBand(point, start, end)
  IN IF point.lat < start.lat \/ point.lat > end.lat THEN FALSE
     ELSE IF band = "no" THEN FALSE
     ELSE IF band = "yes" THEN TRUE
     ELSE SlopeTest(point, start, end)

RECURSIVE EdgeScanPF(_, _, _, _)
EdgeScanPF(pts, point, i, contains) ==
  IF i > Len(pts) THEN contains
  ELSE EdgeScanPF(pts, point, i + 1,
                  IF intersectsWithRaycastPF(point, pts[i - 1], pts[i])
                  THEN ~contains ELSE contains)

ContainsPF(pts, point0) ==
  IF ~IsClosedPts(pts) THEN FALSE
  ELSE LET point == PerturbPass(pts, point0, 1)
       IN EdgeScanPF(pts, point, 2,
                     intersectsWithRaycastPF(point, pts[Len(pts)], pts[1]))

(* ------------------------ slices and Polygon -------------------------- *)
\* The caller's Polygon variables.
Handles == {"p", "q"}
\* Backing arrays: one per variable can be live, and one is being allocated.
ArrIds == 1..(Cardinality(Handles) + 1)

VARIABLES
  arrays,  \* ArrIds -> the backing array's elements (<<>>: not allocated)
  polys,   \* Handles -> the Polygon value's slice header [arr, len, cap]
  expect,  \* Handles -> the point sequence the value was built to hold
  call,    \* the last completed call: its operation, inputs and result
  query,   \* the Point the caller asks Contains about
  input,   \* the contours the loader was given (NoInput: none)
  frame    \* the Contains call in progress, statement by statement

vars == <<arrays, polys, expect, call, query, input, frame>>

\* Polygon{}: the nil slice.
NilSlice == [arr |-> 0, len |-> 0, cap |-> 0]
NoCall == [op |-> "none"]
NoInput == [kind |-> "none"]

\* s[0:len] of a slice header over the arrays `mem`.
SliceElems(mem, s) == IF s.arr = 0 THEN <<>> ELSE SubSeq(mem[s.arr], 1, s.len)

\* p.Points() of the Polygon value held by variable h.
Points(h) == SliceElems(arrays, polys[h])

\* p.IsClosed() of the Polygon value held by variable h.
IsClosedRing(h) ==
  IF polys[h].len < 3 THEN FALSE
  ELSE Points(h)[1] = Points(h)[polys[h].len]
IsClosed(h) == IF polys[h].len < 3 THEN FALSE ELSE TRUE

ZeroPoint == NewPoint(0, 0)
\* No call in progress.  pc: the statement reached; ver: the version called;
\* point: the query as the call holds it; i: the vertex or edge reached;
\* lat: the latitude of intersectsWithRaycast's own copy of the point;
\* contains: the parity flag; iter: the parity of the loop iterations made.
Idle == [pc |-> "idle", ver |-> "none", point |-> ZeroPoint, i |-> 0, lat |-> 0,
         contains |-> FALSE, iter |-> 0]
Zeros(n) == [i \in 1..n |-> ZeroPoint]

\* The capacities append may give the array it allocates for a slice of
\* capacity cap that is full: the runtime doubles a small slice, and the
\* language only asks for room for the new element.
GrowCaps(cap) == {cap + 1, IF cap = 0 THEN 1 ELSE 2 * cap}

\* The capacities of the result of append(s, point): that of s when the
\* element fits.
AppendCaps(s) == IF s.len < s.cap THEN {s.cap} ELSE GrowCaps(s.cap)

\* The store as the program can observe it: an array no variable refers to
\* is collected, an element beyond the length of every slice over its array
\* is written by append before any slice shows it, so it is kept as the zero
\* Point, and an array is named after the first variable that refers to it.
HandleSeq == <<"p", "q">>
FirstUser(ps, a) == CHOOSE i \in 1..Len(HandleSeq) :
  /\ ps[HandleSeq[i]].arr = a
  /\ \A j \in 1..Len(HandleSeq) : ps[HandleSeq[j]].arr = a => i <= j

Visible(mem, ps, a) ==
  LET users == {h \in Handles : ps[h].arr = a}
      shown(i) == \E h \in users : i <= ps[h].len
  IN [i \in 1..Len(mem[a]) |-> IF shown(i) THEN mem[a][i] ELSE ZeroPoint]

\* The result is <<arrays, polys>>.
Collect(mem, ps) ==
  LET live == {ps[h].arr : h \in Handles} \ {0}
  IN <<[n \in ArrIds |->
          IF \E a \in live : FirstUser(ps, a) = n
          THEN Visible(mem, ps, CHOOSE a \in live : FirstUser(ps, a) = n)
          ELSE <<>>],
       [h \in Handles |->
          IF ps[h].arr = 0 THEN ps[h]
          ELSE [ps[h] EXCEPT !.arr = FirstUser(ps, ps[h].arr)]]>>

FreeId(mem) == CHOOSE a \in ArrIds : mem[a] = <<>> /\ \A b \in ArrIds : (mem[b] = <<>>) => a <= b

\* append(s, point): in place when the capacity allows, else into a new array
\* of capacity newcap.  The result is <<arrays, slice>>.
AppendSlice(mem, s, point, newcap) ==
  IF s.len < s.cap
  THEN <<[mem EXCEPT ![s.arr][s.len + 1] = point], [s EXCEPT !.len = s.len + 1]>>
  ELSE LET a == FreeId(mem)
       IN <<[mem EXCEPT ![a] = SliceElems(mem, s) \o <<point>> \o Zeros(newcap - s.len - 1)],
            [arr |-> a, len |-> s.len + 1, cap |-> newcap]>>

\* p.Add(point) on the value s: the receiver is a copy of the header, the
\* backing array is not copied.
AddOverLast(mem, s, point, newcap) ==
  IF s.len = s.cap /\ s.len > 0
  THEN <<[mem EXCEPT ![s.arr][s.len] = point], s>>
  ELSE AppendSlice(mem, s, point, newcap)
Add(mem, s, point, newcap) == AppendSlice(mem, s, point, newcap)

\* NewPolygon(points): the Polygon shares the caller's slice.
NewPolygon(points) == points

\* The caller's []Point{...} of the elements pts with capacity cap, in a new
\* array.  The result is <<arrays, slice>>.
MakeSlice(mem, pts, cap) ==
  IF cap = 0 THEN <<mem, NilSlice>>
  ELSE LET a == FreeId(mem)
       IN <<[mem EXCEPT ![a] = pts \o Zeros(cap - Len(pts))],
            [arr |-> a, len |-> Len(pts), cap |-> cap]>>

(* ------------------ Spec: Polygon values and their arrays -------------- *)
\* Longest point sequence of a Polygon variable.
MaxLen == 4
\* The points the caller builds polygons of.
TagPoints == {NewPoint(0, 0), NewPoint(1, 1)}

RECURSIVE SeqsUpTo(_, _)
SeqsUpTo(S, n) ==
  IF n = 0 THEN {<<>>}
  ELSE LET shorter == SeqsUpTo(S, n - 1)
       IN shorter \cup {Append(q, x) : q \in {r \in shorter : Len(r) = n - 1}, x \in S}

Init ==
  /\ arrays = [a \in ArrIds |-> <<>>]
  /\ polys = [h \in Handles |-> NilSlice]
  /\ expect = [h \in Handles |-> <<>>]
  /\ call = NoCall
  /\ query = ZeroPoint
  /\ input = NoInput
  /\ frame = Idle

\* h := NewPolygon(points), the program's first statement; points is a slice
\* of len Len(pts) and capacity cap.
DoNewPolygon(h, pts, cap) ==
  /\ polys[h] = NilSlice
  /\ call.op = "none"
  /\ LET r == MakeSlice(arrays, pts, cap)
         ps == [polys EXCEPT ![h] = NewPolygon(r[2])]
     IN /\ arrays' = Collect(r[1], ps)[1]
        /\ polys' = Collect(r[1], ps)[2]
        /\ expect' = [expect EXCEPT ![h] = pts]
        /\ call' = [op |-> "NewPolygon", h |-> h, ret |-> SliceElems(r[1], ps[h])]
        /\ UNCHANGED <<query, input, frame>>

\* dst = src.Add(point).
DoAdd(src, dst, point, newcap) ==
  /\ polys[src].len < MaxLen
  /\ LET r == Add(arrays, polys[src], point, newcap)
         ps == [polys EXCEPT ![dst] = r[2]]
     IN /\ arrays' = Collect(r[1], ps)[1]
        /\ polys' = Collect(r[1], ps)[2]
        /\ expect' = [expect EXCEPT ![dst] = Append(expect[src], point)]
        /\ call' = [op |-> "Add", h |-> src, arg |-> point,
                    before |-> Points(src),
                    after |-> SliceElems(r[1], polys[src]),
                    ret |-> SliceElems(r[1], r[2])]
        /\ UNCHANGED <<query, input, frame>>

\* h.Points().
DoPoints(h) ==
  /\ call' = [op |-> "Points", h |-> h, ret |-> Points(h)]
  /\ UNCHANGED <<arrays, polys, expect, query, input, frame>>

\* h.IsClosed().
DoIsClosed(h) ==
  /\ call' = [op |-> "IsClosed", h |-> h, pts |-> Points(h), ret |-> IsClosed(h)]
  /\ UNCHANGED <<arrays, polys, expect, query, input, frame>>

Next ==
  \/ \E h \in Handles, pts \in SeqsUpTo(TagPoints, 2), cap \in 0..MaxLen :
       cap >= Len(pts) /\ cap <= Len(pts) + 1 /\ DoNewPolygon(h, pts, cap)
  \/ \E src \in Handles, dst \in Handles, point \in TagPoints :
       \E newcap \in AppendCaps(polys[src]) : DoAdd(src, dst, point, newcap)
  \/ \E h \in Handles : DoPoints(h)
  \/ \E h \in Handles : DoIsClosed(h)

Spec == Init /\ [][Next]_vars

(* ------------------------- claims under Spec -------------------------- *)
\* C3: p.Add(x) returns a Polygon whose point sequence is p's followed by x,
\* and after the call p.Points() is what it was before the call.
C3_AddAppendsKeepsReceiver ==
  call.op = "Add" =>
    /\ call.ret = Append(call.before, call.arg)
    /\ call.after = call.before
\* An Add on a receiver whose array is full, and one whose array has room.
C3_Witness ==
  /\ call.op = "Add"
  /\ Len(call.before) = 2
  /\ call.ret = Append(call.before, call.arg)

\* C4: two Polygon values derived from a common one by separate Add calls
\* never affect each other: each variable shows the points it was built with.
C4_DivergedValuesIndependent ==
  \A h \in Handles : Points(h) = expect[h]

\* C10: IsClosed returns true iff the polygon has at least 3 points, whether
\* or not its first and last points coincide.
C10_IsClosedIffThreePoints ==
  call.op = "IsClosed" => (call.ret <=> Len(call.pts) >= 3)
C10_Witness ==
  /\ call.op = "IsClosed"
  /\ call.ret
  /\ call.pts[1] # call.pts[Len(call.pts)]

(* ------------- SpecContains: Contains as a function of its inputs ------ *)
Grid == {NewPoint(lat, lng) : lat \in 0..MaxLat, lng \in 0..MaxLng}

Reverse(pts) == [i \in 1..Len(pts) |-> pts[Len(pts) + 1 - i]]

\* p := NewPolygon(pts) for a point sequence over the grid, and a query Point.
InitContains ==
  \E pts \in SeqsUpTo(Grid, MaxPts), point \in Grid :
    LET r == MakeSlice([a \in ArrIds |-> <<>>], pts, Len(pts))
        ps == [h \in Handles |-> IF h = "p" THEN NewPolygon(r[2]) ELSE NilSlice]
    IN /\ arrays = Collect(r[1], ps)[1]
       /\ polys = Collect(r[1], ps)[2]
       /\ expect = [h \in Handles |-> IF h = "p" THEN pts ELSE <<>>]
       /\ call = NoCall
       /\ query = point
       /\ input = NoInput
       /\ frame = Idle

\* h.Contains(query), src/polygon.go.
DoContains(h) ==
  /\ call' = [op |-> "Contains", pts |-> Points(h), point |-> query,
              ret |-> Contains(Points(h), query)]
  /\ UNCHANGED <<arrays, polys, expect, query, input, frame>>

\* h.Contains(query), src/unnamed/part_001; scanned is the query as the edge
\* scan sees it.
DoContainsPF(h) ==
  /\ call' = [op |-> "ContainsPF", pts |-> Points(h), point |-> query,
              scanned |-> PerturbPass(Points(h), query, 1),
              ret |-> ContainsPF(Points(h), query)]
  /\ UNCHANGED <<arrays, polys, expect, query, input, frame>>

NextContains ==
  \/ DoContains("p")
  \/ DoContainsPF("p")

SpecContains == InitContains /\ [][NextContains]_vars

(* ------------- SpecRings: polygons loaded from contours --------------- *)
\* Half the side of the outer contour of a polygon with a hole.
MaxR == 3
\* The plain rectangles have their corners in -MaxHalf..MaxHalf.
MaxHalf == 1

\* The capacity the runtime gives the array append allocates.
RuntimeCap(cap) == IF cap = 0 THEN 1 ELSE 2 * cap

\* polygonFromFile: p := Polygon{}, then p = p.Add(point) for every point.
\* The result is <<arrays, slice>>.
RECURSIVE LoadPoints(_, _, _, _)
LoadPoints(mem, s, pts, i) ==
  IF i > Len(pts) THEN <<mem, s>>
  ELSE LET r == Add(mem, s, pts[i], RuntimeCap(s.cap))
           ps == [h \in Handles |-> IF h = "p" THEN r[2] ELSE NilSlice]
           c == Collect(r[1], ps)
       IN LoadPoints(c[1], c[2]["p"], pts, i + 1)

\* The contours of the test data: a rectangle as TestPolygonSimple lists it,
\* and a diamond.
RectRing(lat1, lat2, lng1, lng2) ==
  <<NewPoint(lat1, lng1), NewPoint(lat1, lng2), NewPoint(lat2, lng2), NewPoint(lat2, lng1)>>
DiamondRing(lat, lng, r) ==
  <<NewPoint(lat - r, lng), NewPoint(lat, lng + r), NewPoint(lat + r, lng), NewPoint(lat, lng - r)>>

Rotate(ring, k) == [i \in 1..Len(ring) |-> ring[((i + k - 1) % Len(ring)) + 1]]
Rotations(ring) == {Rotate(ring, k) : k \in 0..(Len(ring) - 1)}
Orientations(ring) == Rotations(ring) \cup Rotations(Reverse(ring))
\* A contour with its first point repeated at its end, as the data files
\* and TestPolygonSimple give it.
CloseRing(ring) == Append(ring, ring[1])

\* Reference geometry of a convex contour, in exact integer arithmetic.
Cross(a, b, q) ==
  (b.lng - a.lng) * (q.lat - a.lat) - (b.lat - a.lat) * (q.lng - a.lng)
EdgeSides(ring, q) ==
  {Cross(ring[i], ring[(i % Len(ring)) + 1], q) : i \in 1..Len(ring)}
StrictlyInside(ring, q) ==
  \/ \A c \in EdgeSides(ring, q) : c > 0
  \/ \A c \in EdgeSides(ring, q) : c < 0
OnOrInside(ring, q) ==
  \/ \A c \in EdgeSides(ring, q) : c >= 0
  \/ \A c \in EdgeSides(ring, q) : c <= 0
StrictlyOutside(ring, q) == ~OnOrInside(ring, q)

\* Plain rectangles, in every orientation, with and without the closing point.
RectInputs(ring) ==
  {[kind |-> "rect", outer |-> ring, inner |-> <<>>, pts |-> pts] :
     pts \in Orientations(ring) \cup {CloseRing(o) : o \in Orientations(ring)}}
PlainInputs ==
  UNION {RectInputs(RectRing(lat1, lat2, lng1, lng2)) :
           lat1 \in -MaxHalf..MaxHalf, lat2 \in -MaxHalf..MaxHalf,
           lng1 \in -MaxHalf..MaxHalf, lng2 \in -MaxHalf..MaxHalf}
\* An outer contour followed by an inner contour that lies strictly inside
\* it, each with its closing point, as TestPointInPolygonWithHole loads them.
HoleInputs(outer, inner) ==
  {[kind |-> "hole", outer |-> outer, inner |-> inner,
    pts |-> CloseRing(o) \o CloseRing(n)] :
     o \in Rotations(outer), n \in Orientations(inner)}
OuterRings == {RectRing(0, 2 * MaxR, 0, 2 * MaxR), DiamondRing(MaxR, MaxR, MaxR)}
InnerRings == {RectRing(lat, lat + 1, lng, lng + 1) :
                 lat \in 1..(2 * MaxR - 2), lng \in 1..(2 * MaxR - 2)}
HolesOf(outer) ==
  UNION {HoleInputs(outer, inner) :
           inner \in {n \in InnerRings : \A i \in 1..Len(n) : StrictlyInside(outer, n[i])}}
\* The unit square of TestPolygonSimple, (0,0),(0,1),(1,1),(1,0),(0,0): its
\* side is UnitSteps representable steps long.
UnitSteps == 4
UnitInputs ==
  {[kind |-> "unit", outer |-> RectRing(0, UnitSteps, 0, UnitSteps), inner |-> <<>>,
    pts |-> CloseRing(RectRing(0, UnitSteps, 0, UnitSteps))]}
RingInputs ==
  {x \in PlainInputs : x.outer[1].lat < x.outer[3].lat /\ x.outer[1].lng < x.outer[3].lng}
  \cup UNION {HolesOf(outer) : outer \in OuterRings}
  \cup UnitInputs
RingQueries(x) ==
  IF x.kind = "rect"
  THEN {NewPoint(lat, lng) : lat \in (-MaxHalf - 1)..(MaxHalf + 1),
                             lng \in (-MaxHalf - 1)..(MaxHalf + 1)}
  ELSE IF x.kind = "unit"
  THEN {NewPoint(lat, lng) : lat \in 0..(UnitSteps + 1), lng \in 0..(UnitSteps + 1)}
  ELSE {NewPoint(lat, lng) : lat \in 0..(2 * MaxR), lng \in 0..(2 * MaxR)}

InitRings ==
  \E x \in RingInputs :
    LET r == LoadPoints([a \in ArrIds |-> <<>>], NilSlice, x.pts, 1)
    IN /\ arrays = r[1]
       /\ polys = [h \in Handles |-> IF h = "p" THEN r[2] ELSE NilSlice]
       /\ expect = [h \in Handles |-> IF h = "p" THEN x.pts ELSE <<>>]
       /\ call = NoCall
       /\ input = x
       /\ query \in RingQueries(x)
       /\ frame = Idle

SpecRings == InitRings /\ [][NextContains]_vars

(* ------------- SpecSteps: a Contains call, statement by statement ------ *)
\* The inputs have their latitudes in 0..MaxStepLat or at +Inf, their
\* longitudes at 0 or +Inf, and at most MaxStepPts points.
MaxStepLat == 1
MaxStepPts == 3
StepGrid == {NewPoint(lat, lng) : lat \in 0..MaxStepLat \cup {PosInf}, lng \in {0, PosInf}}

InitSteps ==
  \E pts \in SeqsUpTo(StepGrid, MaxStepPts), point \in StepGrid :
    LET r == MakeSlice([a \in ArrIds |-> <<>>], pts, Len(pts))
        ps == [h \in Handles |-> IF h = "p" THEN NewPolygon(r[2]) ELSE NilSlice]
    IN /\ arrays = Collect(r[1], ps)[1]
       /\ polys = Collect(r[1], ps)[2]
       /\ expect = [h \in Handles |-> IF h = "p" THEN pts ELSE <<>>]
       /\ call = NoCall
       /\ query = point
       /\ input = NoInput
       /\ frame = Idle

\* The return statement of the call: the frame ends and the result is recorded.
Return(op, ret) ==
  /\ frame' = [frame EXCEPT !.pc = "done", !.ver = op, !.contains = ret]
  /\ call' = [op |-> op, pts |-> Points("p"), point |-> query, ret |-> ret]

\* The ends of the edge the scan is at: the wraparound edge first (i = 0),
\* then points[i-1], points[i] for i = 1 .. len-1 (0-based).
EdgeStart(pts, i) == IF i = 0 THEN pts[Len(pts)] ELSE pts[i]
EdgeEnd(pts, i) == pts[i + 1]

\* The edge at i has given `hit`: the flag is set or toggled and the scan
\* moves on, or returns after the last edge.
AfterEdge(op, hit) ==
  LET c == IF frame.i = 0 THEN hit ELSE (IF hit THEN ~frame.contains ELSE frame.contains)
  IN IF frame.i + 1 < polys["p"].len
     THEN /\ frame' = [frame EXCEPT !.i = frame.i + 1, !.contains = c,
                                    !.lat = frame.point.lat]
          /\ UNCHANGED call
     ELSE Return(op, c)

\* src/polygon.go lines 49-63: the closedness check, the vertex loop, and the
\* call of intersectsWithRaycast for the wraparound edge.
EnterContains ==
  /\ frame.pc = "idle"
  /\ IF ~IsClosed("p") THEN Return("Contains", FALSE)
     ELSE IF IsVertex(Points("p"), query) THEN Return("Contains", TRUE)
     ELSE /\ frame' = [frame EXCEPT !.pc = "edge", !.ver = "Contains",
                                    !.point = query, !.lat = query.lat]
          /\ UNCHANGED call
  /\ UNCHANGED <<arrays, polys, expect, query, input>>

\* src/polygon.go lines 89-92: one iteration of the latitude loop.
RaycastLoop ==
  /\ frame.pc = "edge" /\ frame.ver = "Contains"
  /\ LET start == Ordered(EdgeStart(Points("p"), frame.i), EdgeEnd(Points("p"), frame.i))[1]
         end == Ordered(EdgeStart(Points("p"), frame.i), EdgeEnd(Points("p"), frame.i))[2]
     IN /\ frame.lat = start.lat \/ frame.lat = end.lat
        /\ frame' = [frame EXCEPT !.lat = Nextafter(frame.lat), !.iter = 1 - frame.iter]
  /\ UNCHANGED <<arrays, polys, expect, call, query, input>>

\* src/polygon.go lines 94-124 and the caller's use of the result.
RaycastDecide ==
  /\ frame.pc = "edge" /\ frame.ver = "Contains"
  /\ LET start == Ordered(EdgeStart(Points("p"), frame.i), EdgeEnd(Points("p"), frame.i))[1]
         end == Ordered(EdgeStart(Points("p"), frame.i), EdgeEnd(Points("p"), frame.i))[2]
     IN /\ ~(frame.lat = start.lat \/ frame.lat = end.lat)
        /\ AfterEdge("Contains", EdgeDecision(NewPoint(frame.lat, frame.point.lng), start, end))
  /\ UNCHANGED <<arrays, polys, expect, query, input>>

\* src/unnamed/part_001 lines 47-52: the closedness check; the perturbation
\* pass starts at the first vertex.
EnterContainsPF ==
  /\ frame.pc = "idle"
  /\ IF ~IsClosed("p") THEN Return("ContainsPF", FALSE)
     ELSE /\ frame' = [frame EXCEPT !.pc = "passLat", !.ver = "ContainsPF",
                                    !.point = query, !.i = 1]
          /\ UNCHANGED call
  /\ UNCHANGED <<arrays, polys, expect, query, input>>

\* src/unnamed/part_001 lines 54-58: one test of the latitude loop at vertex i.
PassLat ==
  /\ frame.pc = "passLat"
  /\ IF frame.point.lat = Points("p")[frame.i].lat
     THEN frame' = [frame EXCEPT !.point = NewPoint(Nextafter(frame.point.lat), frame.point.lng),
                                 !.iter = 1 - frame.iter]
     ELSE frame' = [frame EXCEPT !.pc = "passLng"]
  /\ UNCHANGED <<arrays, polys, expect, call, query, input>>

\* src/unnamed/part_001 lines 59-63: one test of the longitude loop at vertex
\* i; when it ends the pass moves to the next vertex, or to the edge scan.
PassLng ==
  /\ frame.pc = "passLng"
  /\ IF frame.point.lng = Points("p")[frame.i].lng
     THEN frame' = [frame EXCEPT !.point = NewPoint(frame.point.lat, Nextafter(frame.point.lng)),
                                 !.iter = 1 - frame.iter]
     ELSE IF frame.i < polys["p"].len
     THEN frame' = [frame EXCEPT !.pc = "passLat", !.i = frame.i + 1]
     ELSE frame' = [frame EXCEPT !.pc = "edge", !.i = 0]
  /\ UNCHANGED <<arrays, polys, expect, call, query, input>>

\* src/unnamed/part_001 lines 66-77: one edge of the scan.
EdgePF ==
  /\ frame.pc = "edge" /\ frame.ver = "ContainsPF"
  /\ AfterEdge("ContainsPF",
               intersectsWithRaycastPF(frame.point, EdgeStart(Points("p"), frame.i),
                                       EdgeEnd(Points("p"), frame.i)))
  /\ UNCHANGED <<arrays, polys, expect, query, input>>

NextSteps ==
  \/ EnterContains
  \/ RaycastLoop
  \/ RaycastDecide
  \/ EnterContainsPF
  \/ PassLat
  \/ PassLng
  \/ EdgePF

SpecSteps == InitSteps /\ [][NextSteps]_vars

\* A call that has started keeps executing: the function runs on one
\* goroutine and never blocks.
FairSteps == SpecSteps /\ WF_vars(NextSteps)

(* ------------- SpecJSON: Point.UnmarshalJSON --------------------------- *)
\* The generated JSON objects have at most MaxPairs members, with numbers
\* in 0..MaxNum.
MaxPairs == 2
MaxNum == 1

\* The tokens of a JSON text.
Punct(c) == [t |-> c, s |-> "", n |-> 0]
StrTok(k) == [t |-> "str", s |-> k, n |-> 0]
NumTok(v) == [t |-> "num", s |-> "", n |-> v]

\* The members of the generated objects: a key, and a number or a string.
JSONKeys == {"lat", "lng", "Lat"}
JSONValues == {NumTok(v) : v \in 0..MaxNum} \cup {StrTok("x")}
JSONMembers == {<<k, v>> : k \in JSONKeys, v \in JSONValues}

\* The text of an object: { "k" : v , "k" : v }.
RECURSIVE RenderMembers(_, _)
RenderMembers(ms, i) ==
  IF i > Len(ms) THEN <<>>
  ELSE (IF i > 1 THEN <<Punct(",")>> ELSE <<>>)
       \o <<StrTok(ms[i][1]), Punct(":"), ms[i][2]>> \o RenderMembers(ms, i + 1)
RenderObject(ms) == <<Punct("{")>> \o RenderMembers(ms, 1) \o <<Punct("}")>>

\* values[k] of a Go map[string]float64: the zero value for a missing key.
MapGet(m, k) == IF k \in DOMAIN m THEN m[k] ELSE 0
MapPut(m, k, v) == [x \in DOMAIN m \cup {k} |-> IF x = k THEN v ELSE m[x]]
NilMap == [x \in {} |-> 0]

TokAt(data, i) == IF i <= Len(data) THEN data[i] ELSE Punct("eof")

\* dec.Decode(&values), values a map[string]float64: the members of the
\* first JSON value of the text, read left to right from token i.  A syntax
\* error or the end of the text stops the decoder with an error; a member
\* whose value is no number is skipped and reported when the object ends.
RECURSIVE DecodeMembers(_, _, _, _)
DecodeMembers(data, i, m, typeErr) ==
  IF TokAt(data, i).t # "str" \/ TokAt(data, i + 1).t # ":" THEN [err |-> TRUE, values |-> m]
  ELSE IF TokAt(data, i + 2).t \notin {"num", "str"} THEN [err |-> TRUE, values |-> m]
  ELSE LET v == TokAt(data, i + 2)
           m2 == IF v.t = "num" THEN MapPut(m, TokAt(data, i).s, v.n) ELSE m
           te == typeErr \/ v.t # "num"
       IN IF TokAt(data, i + 3).t = "}" THEN [err |-> te, values |-> m2]
          ELSE IF TokAt(data, i + 3).t = "," THEN DecodeMembers(data, i + 4, m2, te)
          ELSE [err |-> TRUE, values |-> m2]
Decode(data) ==
  IF TokAt(data, 1).t # "{" THEN [err |-> TRUE, values |-> NilMap]
  ELSE IF TokAt(data, 2).t = "}" THEN [err |-> FALSE, values |-> NilMap]
  ELSE DecodeMembers(data, 2, NilMap, FALSE)

\* Point.UnmarshalJSON: the error returned and *p after the call.
UnmarshalJSON(p, data) ==
  IF Decode(data).err THEN [err |-> TRUE, p |-> p]
  ELSE [err |-> FALSE, p |-> NewPoint(MapGet(Decode(data).values, "lat"),
                                      MapGet(Decode(data).values, "lng"))]

\* The texts: every generated object, whole or cut short.
JSONInputs ==
  {[kind |-> "json", members |-> ms, data |-> SubSeq(RenderObject(ms), 1, n)] :
     <<ms, n>> \in {<<ms, n>> \in SeqsUpTo(JSONMembers, MaxPairs) \X (0..(4 * MaxPairs + 1)) :
                      n <= Len(RenderObject(ms))}}

\* p := &Point{} or a Point with data, and a text to decode into it.
InitJSON ==
  /\ arrays = [a \in ArrIds |-> <<>>]
  /\ polys = [h \in Handles |-> NilSlice]
  /\ expect = [h \in Handles |-> <<>>]
  /\ call = NoCall
  /\ query \in {ZeroPoint, NewPoint(MaxNum + 1, MaxNum + 1)}
  /\ input \in JSONInputs
  /\ frame = Idle

\* err := query.UnmarshalJSON(input.data)
DoUnmarshalJSON ==
  /\ call.op = "none"
  /\ call' = [op |-> "UnmarshalJSON", data |-> input.data,
              err |-> UnmarshalJSON(query, input.data).err]
  /\ query' = UnmarshalJSON(query, input.data).p
  /\ UNCHANGED <<arrays, polys, expect, input, frame>>

NextJSON == DoUnmarshalJSON

SpecJSON == InitJSON /\ [][NextJSON]_vars

(* --------------------- claims under SpecContains ---------------------- *)
\* C1: Contains of a polygon of fewer than 3 points returns false for every
\* query Point (both versions).
C1_OpenPolygonContainsNothing ==
  (call.op \in {"Contains", "ContainsPF"} /\ Len(call.pts) < 3) => ~call.ret
\* A 2-point polygon asked about one of its own points.
C1_Witness ==
  /\ call.op = "Contains"
  /\ Len(call.pts) = 2
  /\ call.point = call.pts[1]

\* C2: Contains of src/polygon.go returns true for every query equal (lat and
\* lng) to a vertex of a polygon of at least 3 points.
C2_VertexContained ==
  (/\ call.op = "Contains"
   /\ Len(call.pts) >= 3
   /\ \E i \in 1..Len(call.pts) : call.pts[i] = call.point) => call.ret
\* A vertex query the edge scan alone would have answered false.
C2_Witness ==
  /\ call.op = "Contains"
  /\ Len(call.pts) >= 3
  /\ call.point = call.pts[1]
  /\ \A i \in 2..Len(call.pts) : call.pts[i] # call.point
  /\ ~EdgeScan(call.pts, call.point, 2,
               intersectsWithRaycast(call.point, call.pts[Len(call.pts)], call.pts[1]))

\* C5: Contains of src/polygon.go returns the same boolean on a polygon of at
\* least 3 points and on the polygon with its point sequence reversed.
C5_ReversalInvariant ==
  (call.op = "Contains" /\ Len(call.pts) >= 3) =>
    call.ret = Contains(Reverse(call.pts), call.point)
\* A polygon that is not its own reverse contains a query that is no vertex.
C5_Witness ==
  /\ call.op = "Contains"
  /\ Len(call.pts) >= 3
  /\ Reverse(call.pts) # call.pts
  /\ ~IsVertex(call.pts, call.point)
  /\ call.ret

\* C9: in the perturb-first Contains, when the edge scan begins the query's
\* latitude differs from every vertex's latitude and its longitude from every
\* vertex's longitude.
C9_ScannedPointOffEveryVertex ==
  (call.op = "ContainsPF" /\ Len(call.pts) >= 3) =>
    \A i \in 1..Len(call.pts) :
      /\ call.pts[i].lat # call.scanned.lat
      /\ call.pts[i].lng # call.scanned.lng

\* The edges of the closed ring for which the edge-crossing test of each
\* version reports a crossing: edge 0 is the wraparound edge.
CrossedEdges(pts, point) ==
  {i \in 0..(Len(pts) - 1) :
     intersectsWithRaycast(point, EdgeStart(pts, i), EdgeEnd(pts, i))}
CrossedEdgesPF(pts, point) ==
  {i \in 0..(Len(pts) - 1) :
     intersectsWithRaycastPF(point, EdgeStart(pts, i), EdgeEnd(pts, i))}

\* C12: for a polygon of at least 3 points and a query that is no vertex,
\* Contains returns true exactly when the number of edges of the closed ring
\* that the edge-crossing test reports crossed is odd.
C12_OddCrossings ==
  /\ (call.op = "Contains" /\ Len(call.pts) >= 3 /\ ~IsVertex(call.pts, call.point)) =>
       (call.ret <=> Cardinality(CrossedEdges(call.pts, call.point)) % 2 = 1)
  /\ (call.op = "ContainsPF" /\ Len(call.pts) >= 3 /\ ~IsVertex(call.pts, call.point)) =>
       (call.ret <=> Cardinality(CrossedEdgesPF(call.pts, call.scanned)) % 2 = 1)
\* The wraparound edge is the only edge crossed.
C12_Witness ==
  /\ call.op = "Contains" /\ Len(call.pts) >= 3 /\ ~IsVertex(call.pts, call.point)
  /\ CrossedEdges(call.pts, call.point) = {0}
  /\ call.ret

\* The edge-crossing test of src/unnamed/part_001 reaches the slope
\* comparison (lines 117-119) for the edge start0, end0: none of the
\* returns of lines 95-114 is taken.
ReachesSlopePF(point, start0, end0) ==
  LET start == Ordered(start0, end0)[1]
      end == Ordered(start0, end0)[2]
  IN /\ ~(point.lat < start.lat \/ point.lat > end.lat)
     /\ LngBand(point, start, end) = "band"

\* C13: in the perturb-first Contains, whenever the edge-crossing test
\* reaches the slope comparison, the divisor point.lng - start.lng of raySlope
\* is not zero.
C13_RaySlopeDivisorNonZero ==
  (call.op = "ContainsPF" /\ Len(call.pts) >= 3) =>
    \A i \in 0..(Len(call.pts) - 1) :
      ReachesSlopePF(call.scanned, EdgeStart(call.pts, i), EdgeEnd(call.pts, i)) =>
        call.scanned.lng #
          Ordered(EdgeStart(call.pts, i), EdgeEnd(call.pts, i))[1].lng

\* C14: for a polygon of at least 3 points, appending a duplicate of its
\* first point does not change the result of Contains (src/polygon.go).
C14_ClosingPointHarmless ==
  (call.op = "Contains" /\ Len(call.pts) >= 3) =>
    call.ret = Contains(Append(call.pts, call.pts[1]), call.point)
\* A query that is no vertex and is contained, with and without the
\* duplicate, in a polygon whose last point is not its first.
C14_Witness ==
  /\ call.op = "Contains" /\ Len(call.pts) >= 3
  /\ call.pts[Len(call.pts)] # call.pts[1]
  /\ ~IsVertex(call.pts, call.point)
  /\ call.ret
  /\ Contains(Append(call.pts, call.pts[1]), call.point)

\* C16: for a polygon of at least 3 points and a query that is no vertex,
\* the Contains of src/polygon.go and the perturb-first Contains of
\* src/unnamed/part_001 return the same boolean.
C16_VersionsAgree ==
  (call.op = "Contains" /\ Len(call.pts) >= 3 /\ ~IsVertex(call.pts, call.point)) =>
    call.ret = ContainsPF(call.pts, call.point)

(* ----------------------- claims under SpecRings ----------------------- *)
\* C6: a polygon loaded from an outer contour followed by an inner contour
\* strictly inside it does not contain a point strictly inside the inner
\* contour and contains every point strictly inside the outer contour and
\* strictly outside the inner one.
C6_HoleExcluded ==
  (call.op = "Contains" /\ input.kind = "hole") =>
    /\ StrictlyInside(input.inner, call.point) => ~call.ret
    /\ (StrictlyInside(input.outer, call.point)
        /\ StrictlyOutside(input.inner, call.point)) => call.ret

C15_UnitSquareVertices ==
  (input.kind = "unit" /\ call.op \in {"Contains", "ContainsPF"}
   /\ call.point \in {NewPoint(0, 0), NewPoint(UnitSteps, UnitSteps)}) => call.ret

(* ----------------------- claims under FairSteps ----------------------- *)
\* C8: every call of Contains returns: the perturbation loops and the edge
\* scan finish, whatever the polygon and the query point.
C8_ContainsTerminates == <>(frame.pc = "done")

\* The statement-by-statement call agrees with Contains and ContainsPF.
StepsAgree ==
  (frame.pc = "done" /\ query.lat # PosInf /\ query.lng # PosInf
   /\ \A i \in 1..Len(call.pts) : call.pts[i].lat # PosInf /\ call.pts[i].lng # PosInf) =>
    call.ret = IF call.op = "Contains" THEN Contains(call.pts, call.point)
               ELSE ContainsPF(call.pts, call.point)

(* ------------------------ claims under SpecJSON ------------------------ *)
\* The text is a whole JSON object, and the keys it has.
WholeObject == input.kind = "json" /\ input.data = RenderObject(input.members)
KeysOf(ms) == {ms[i][1] : i \in 1..Len(ms)}

\* C11: UnmarshalJSON returns an error for every JSON object that lacks the
\* key lat or the key lng.
C11_MissingKeyIsError ==
  (call.op = "UnmarshalJSON" /\ WholeObject
   /\ ~({"lat", "lng"} \subseteq KeysOf(input.members))) => call.err
=============================================================================
